---- MODULE Spec2Model ----
(***************************************************************************)
(* Task queue, dispatcher workers and starter-task scheduler of swarmflow. *)
(*                                                                         *)
(* The Redis store is modelled by its keys: the list "swarm_tasks", one    *)
(* list "processing:<worker_id>" per worker, the list "finished" and the   *)
(* sorted set "scheduled_starter_tasks".  Every Redis command is one       *)
(* atomic step; a handler that issues several commands is a sequence of    *)
(* steps, with the position of each process kept in a pc variable.         *)
(*                                                                         *)
(* List entries carry, next to the serialized payload (data), a history    *)
(* tag (uid) naming the add_task call that stored them.  No operation of   *)
(* the program reads the tag: Redis compares payloads only.                *)
(***************************************************************************)
EXTENDS Integers, Sequences, FiniteSets, TLC

\* ---------------------------------------------------------------- bounds
NumWorkers == 2
MaxTasks == 2
MaxTime == 1
MaxSched == 1
MaxOps == 1
MaxDueTime == 6
MaxRows == 2

Workers == 1..NumWorkers
Uids == 1..MaxTasks
\* One caller of the schedule operations at a time, concurrent with the
\* scheduler thread.
Callers == {1}
SchedIds == 1..MaxSched

\* ------------------------------------------------------------- task data
None == "None"
FieldNames == {"a", "b"}

\* schemas.py: the SwarmTask model (tool/report_url/external/starter default).
SwarmTask(description, report_url, callback_url, fields, type, external, starter) ==
    [description |-> description, tool |-> "", report_url |-> report_url,
     callback_url |-> callback_url, fields |-> fields, type |-> type,
     external |-> external, starter |-> starter]

AllUnset == [f \in FieldNames |-> None]
SomeSet == [f \in FieldNames |-> IF f = "a" THEN "x" ELSE None]

TaskAI == SwarmTask("ai form", "http://reports/r", "http://t/", AllUnset, "ai", FALSE, FALSE)
TaskHuman == SwarmTask("human form", "", "http://h/", SomeSet, "human", FALSE, FALSE)
TaskStarter == SwarmTask("starter", "", "http://s/", AllUnset, "ai", FALSE, TRUE)

\* The tasks a producer submits.
TaskPool == {TaskAI, TaskHuman}

\* Tasks a form author can produce: a field whose name contains "json", and a
\* human task that names a report.
TaskJsonKey ==
    SwarmTask("json form", "", "http://j/", [json_id |-> None, b |-> None],
              "ai", FALSE, FALSE)
TaskHumanReport ==
    SwarmTask("human report", "http://reports/r", "http://h/", SomeSet,
              "human", FALSE, FALSE)

FillPool == {TaskJsonKey, TaskHumanReport}

\* JSON values: a string is written in quotes, None is written null, a
\* boolean true or false.
JsonString(v) == IF v = None THEN <<"null">> ELSE <<"string", v>>

JsonBool(v) == IF v THEN <<"true">> ELSE <<"false">>

FromJsonString_NullEmpty(j) == IF j = <<"null">> THEN "" ELSE j[2]

FromJsonString(j) == IF j = <<"null">> THEN None ELSE j[2]

FromJsonBool(j) == j = <<"true">>

\* model_dump_json: the serialized payload, the JSON values of the fields
\* in declaration order.
model_dump_json(t) ==
    <<JsonString(t.description), JsonString(t.tool), JsonString(t.report_url),
      JsonString(t.callback_url),
      [f \in DOMAIN t.fields |-> JsonString(t.fields[f])],
      JsonString(t.type), JsonBool(t.external), JsonBool(t.starter)>>

\* model_validate_json: the task parsed back from a payload.
model_validate_json(s) ==
    [description |-> FromJsonString(s[1]), tool |-> FromJsonString(s[2]),
     report_url |-> FromJsonString(s[3]),
     callback_url |-> FromJsonString(s[4]),
     fields |-> [f \in DOMAIN s[5] |-> FromJsonString(s[5][f])],
     type |-> FromJsonString(s[6]),
     external |-> FromJsonBool(s[7]), starter |-> FromJsonBool(s[8])]

\* ------------------------------------------------------ Redis list commands
\* LPUSH key value: insert at the head (index 1).
LPush_Tail(list, e) == Append(list, e)

LPush_Unique(list, e) ==
    IF \E i \in 1..Len(list) : list[i].data = e.data THEN list ELSE <<e>> \o list

LPush(list, e) == <<e>> \o list

\* RPOP / RPOPLPUSH source side: the tail element and the list without it.
RPopValue_Head(list) == list[1]

RPopValue(list) == list[Len(list)]

RPopRest_NoRemove(list) == list

RPopRest(list) == SubSeq(list, 1, Len(list) - 1)

\* LREM key 1 value: remove the first entry, from the head, whose payload
\* equals value.
LRem1_Keep(list, data) == list

LRem1_All(list, data) == SelectSeq(list, LAMBDA e : e.data # data)

RECURSIVE LRem1(_, _)
LRem1(list, data) ==
    IF list = <<>> THEN <<>>
    ELSE IF Head(list).data = data THEN Tail(list)
    ELSE <<Head(list)>> \o LRem1(Tail(list), data)

\* ---------------------------------------------------------------- state
VARIABLES
    swarm_tasks,   \* Redis list "swarm_tasks": the main queue
    processing,    \* Redis lists "processing:<worker_id>", by worker
    finished,      \* Redis list "finished"
    wpc,           \* position of each worker's process_queue coroutine
    wdata,         \* task_data: the entry the worker's rpoplpush returned
    wtask,         \* task: the deserialized task the worker is processing
    nextUid,       \* history: tag of the next add_task
    resOrder,      \* history: tags in the order reservations returned them
    hist,          \* history: per tag, what happened to that instance
    sched,         \* Redis sorted set "scheduled_starter_tasks"
    now,           \* the clock (time.time, datetime.now), in minutes
    nextId,        \* the next task_id schedule_task generates
    spc,           \* position of the scheduler thread (_run_scheduler)
    s_time,        \* get_due_tasks: current_time
    s_due,         \* get_due_tasks: the due entries not yet looped over
    s_cur,         \* get_due_tasks: the entry between its ZREM and ZADD
    s_tasks,       \* get_due_tasks: tasks_to_run, then _run_scheduler's list
    cpc,           \* position of each caller of the schedule operations
    c_loc,         \* locals of the caller's modify / remove call
    nOps,          \* how many modify / remove calls have found their entry
    shist,         \* history: per task_id, firings and promotions
    d_ret,         \* what the last direct get_due_tasks call returned
    d_created,     \* history: per task_id, the time of its schedule_task
    d_op,          \* the last direct modify / remove call and what it returned
    db,            \* the relational store: the rows the forms have inserted
    resp,          \* the last request to POST /forms/{form_name} and its response
    q_ret,         \* the last direct add_task or get_task call and what it returned
    wlife,         \* per worker process: up, shutdown (handler run), exited, crashed
    d_fired,       \* per schedule id: the time of its most recent firing by a direct call
    d_status,      \* the last direct get_task_status call and what it returned
    b_tasks,       \* second scheduler loop: the due tasks it has still to push
    b_pushed       \* per schedule id: how many tasks the second loop has pushed

NoEntry == [data |-> <<>>, uid |-> 0]
NoTask == [type |-> "none"]

\* enq: the task given to add_task;
\* res: how many reservations returned the instance; got: the task the
\* reservation deserialized; fetch/fill/cb/cbOut/cbFields: the collaborator
\* calls made for it and their outcomes; acked: LREMs executed for it.
NoHist ==
    [enq |-> NoTask, res |-> 0, got |-> NoTask, fetch |-> 0,
     fill |-> "none", cb |-> 0, cbOut |-> "none", cbFields |-> AllUnset,
     fin |-> "none", late |-> FALSE, acked |-> 0]

queueVars == <<swarm_tasks, processing, finished, wpc, wdata, wtask,
               nextUid, resOrder, hist>>

workerVars == <<processing, finished, wpc, wdata, wtask, resOrder>>

schedVars == <<sched, now, nextId, spc, s_time, s_due, s_cur, s_tasks,
               cpc, c_loc, nOps, shist>>

dueVars == <<d_ret, d_created, d_op>>

serverVars == <<db, resp>>

submitVars == <<q_ret>>

lifeVars == <<wlife>>

statusVars == <<d_fired, d_status>>

secondVars == <<b_tasks, b_pushed>>

vars == <<queueVars, schedVars, dueVars, serverVars, submitVars, lifeVars,
         statusVars, secondVars>>

\* ------------------------------------------------------------ the engine
\* RedisEngine.add_task: validate, then LPUSH swarm_tasks.
add_task_effect(t) ==
    /\ nextUid <= MaxTasks
    /\ swarm_tasks' = LPush(swarm_tasks, [data |-> model_dump_json(t), uid |-> nextUid])
    /\ nextUid' = nextUid + 1
    /\ hist' = [hist EXCEPT ![nextUid].enq = t]

\* A producer (submit) calls add_task.
add_task(t) ==
    /\ add_task_effect(t)
    /\ UNCHANGED <<processing, finished, wpc, wdata, wtask, resOrder>>
    /\ UNCHANGED schedVars
    /\ UNCHANGED submitVars
    /\ UNCHANGED statusVars
    /\ UNCHANGED secondVars
    /\ UNCHANGED lifeVars
    /\ UNCHANGED serverVars
    /\ UNCHANGED dueVars

\* RedisEngine.get_task: RPOP swarm_tasks, deserialize.
get_task ==
    /\ swarm_tasks # <<>>
    /\ LET e == RPopValue(swarm_tasks) IN
       /\ swarm_tasks' = RPopRest(swarm_tasks)
       /\ resOrder' = Append(resOrder, e.uid)
       /\ hist' = [hist EXCEPT ![e.uid].res = @ + 1,
                               ![e.uid].got = model_validate_json(e.data)]
    /\ UNCHANGED <<processing, finished, wpc, wdata, wtask, nextUid>>
    /\ UNCHANGED schedVars
    /\ UNCHANGED submitVars
    /\ UNCHANGED statusVars
    /\ UNCHANGED secondVars
    /\ UNCHANGED lifeVars
    /\ UNCHANGED serverVars
    /\ UNCHANGED dueVars

\* ------------------------------------------------------------ the worker
\* Outcomes of the calls the worker makes to its collaborators.
FetchOutcomes == {"200", "non200", "raise"}
FillOutcomes == {"ok", "raise", "unparseable"}
CallbackOutcomes == {"ok", "non_success", "unreachable"}

\* generate_field_values, line 30: every occurrence of "json" is removed from
\* the text of the reply, the field names in it included.
replace_json(name) == IF name = "json_id" THEN "_id" ELSE name

Generated_Echo(task) == task.fields

\* What json.loads of the generated text yields when the fill succeeds: the
\* reply gives a value to each field it was asked for.
Generated(task) ==
    [name \in {replace_json(f) : f \in DOMAIN task.fields} |-> "gen"]

\* The worker process is alive: its process_queue coroutine can run.
Running(w) == wlife[w] \in {"up", "shutdown"}

\* pydantic accepts a payload with every required field and a known type.
ValidPayload(data) ==
    Len(data) = 8 /\ FromJsonString(data[6]) \in {"human", "ai"}

\* process_task, line 44: the condition under which values are generated.
NeedsFill(task) ==
    task.type = "ai" /\ \A f \in DOMAIN task.fields : task.fields[f] = None

\* generate_field_values raises, or json.loads raises on its text.
FillFailed_OnlyRaise(fillOut) == fillOut = "raise"

FillFailed(fillOut) == fillOut \in {"raise", "unparseable"}

\* client.post raises only when the request itself fails; a response of any
\* status code is returned without raise_for_status.
PostRaises(cbOut) == cbOut = "unreachable"

\* Where process_queue continues when a statement outside process_task
\* raises: nothing in process_queue catches it, the coroutine ends.
process_queue_on_error == "stopped"

\* process_queue, lines 61-66: RPOPLPUSH swarm_tasks processing:<worker_id>,
\* then deserialize.
process_queue_reserve(w) ==
    /\ wpc[w] = "reserve"
    /\ Running(w)
    /\ \E storeOk \in BOOLEAN :
         IF ~storeOk
         THEN /\ wpc' = [wpc EXCEPT ![w] = process_queue_on_error]
              /\ UNCHANGED <<swarm_tasks, processing, wdata, wtask, resOrder, hist>>
         ELSE IF swarm_tasks = <<>>
         THEN UNCHANGED <<swarm_tasks, processing, wpc, wdata, wtask, resOrder, hist>>
         ELSE LET e == RPopValue(swarm_tasks) IN
              /\ swarm_tasks' = RPopRest(swarm_tasks)
              /\ processing' = [processing EXCEPT ![w] = LPush(@, e)]
              /\ resOrder' = Append(resOrder, e.uid)
              /\ wdata' = [wdata EXCEPT ![w] = e]
              /\ IF ValidPayload(e.data)
                 THEN /\ wtask' = [wtask EXCEPT ![w] = model_validate_json(e.data)]
                      /\ wpc' = [wpc EXCEPT ![w] = "process"]
                      /\ hist' = [hist EXCEPT ![e.uid].res = @ + 1,
                                              ![e.uid].got = model_validate_json(e.data),
                                              ![e.uid].late = wlife[w] = "shutdown"]
                 ELSE /\ wpc' = [wpc EXCEPT ![w] = process_queue_on_error]
                      /\ hist' = [hist EXCEPT ![e.uid].res = @ + 1,
                                              ![e.uid].late = wlife[w] = "shutdown"]
                      /\ UNCHANGED wtask
    /\ UNCHANGED <<finished, nextUid>>
    /\ UNCHANGED schedVars
    /\ UNCHANGED submitVars
    /\ UNCHANGED statusVars
    /\ UNCHANGED secondVars
    /\ UNCHANGED lifeVars
    /\ UNCHANGED serverVars
    /\ UNCHANGED dueVars

\* process_task, lines 34-54: report fetch, fill, callback, LPUSH finished.
\* Any exception, a store error of the LPUSH included, is caught by the except
\* clause and process_task returns.  The finished list is written here and
\* read by no process, so the calls and the LPUSH are one step.
process_task(w) ==
    /\ wpc[w] = "process"
    /\ Running(w)
    /\ LET task == wtask[w]
           uid == wdata[w].uid
           doFetch == task.report_url # ""
       IN \E fetchOut \in (IF doFetch THEN FetchOutcomes ELSE {"skipped"}) :
          LET fetchRaised == fetchOut = "raise"
              doFill == ~fetchRaised /\ NeedsFill(task)
          IN \E fillOut \in (IF doFill THEN FillOutcomes ELSE {"skipped"}) :
             LET fillRaised == doFill /\ FillFailed(fillOut)
                 fields2 == IF doFill /\ ~fillRaised THEN Generated(task) ELSE task.fields
                 task2 == [task EXCEPT !.fields = fields2]
                 doPost == ~fetchRaised /\ ~fillRaised
             IN \E cbOut \in (IF doPost THEN CallbackOutcomes ELSE {"skipped"}) :
                LET posted == doPost /\ ~PostRaises(cbOut)
                IN \E storeOk \in (IF posted THEN BOOLEAN ELSE {TRUE}) :
                   /\ hist' = [hist EXCEPT ![uid] =
                          [@ EXCEPT !.fetch = @ + (IF doFetch THEN 1 ELSE 0),
                                    !.fill = IF doFill THEN fillOut ELSE @,
                                    !.cb = @ + (IF doPost THEN 1 ELSE 0),
                                    !.cbOut = IF doPost THEN cbOut ELSE @,
                                    !.cbFields = IF doPost THEN fields2 ELSE @,
                                    !.fin = IF ~posted THEN @
                                            ELSE IF storeOk THEN "ok"
                                            ELSE "raise"]]
                   /\ finished' = IF posted /\ storeOk
                                  THEN LPush(finished,
                                             [data |-> model_dump_json(task2),
                                              uid |-> uid])
                                  ELSE finished
    /\ wtask' = [wtask EXCEPT ![w] = NoTask]
    /\ wpc' = [wpc EXCEPT ![w] = "ack"]
    /\ UNCHANGED <<swarm_tasks, processing, wdata, nextUid, resOrder>>
    /\ UNCHANGED schedVars
    /\ UNCHANGED submitVars
    /\ UNCHANGED statusVars
    /\ UNCHANGED secondVars
    /\ UNCHANGED lifeVars
    /\ UNCHANGED serverVars
    /\ UNCHANGED dueVars

\* process_queue, lines 69-70: LREM processing:<worker_id> 1 task_data, then
\* asyncio.sleep(1) and the next iteration.
acknowledge(w) ==
    /\ wpc[w] = "ack"
    /\ Running(w)
    /\ \E storeOk \in BOOLEAN :
         IF storeOk
         THEN /\ processing' = [processing EXCEPT ![w] = LRem1(@, wdata[w].data)]
              /\ hist' = [hist EXCEPT ![wdata[w].uid].acked = @ + 1]
              /\ wpc' = [wpc EXCEPT ![w] = "reserve"]
              /\ wdata' = [wdata EXCEPT ![w] = NoEntry]
         ELSE /\ wpc' = [wpc EXCEPT ![w] = process_queue_on_error]
              /\ UNCHANGED <<processing, hist, wdata>>
    /\ UNCHANGED <<swarm_tasks, finished, wtask, nextUid, resOrder>>
    /\ UNCHANGED schedVars
    /\ UNCHANGED submitVars
    /\ UNCHANGED statusVars
    /\ UNCHANGED secondVars
    /\ UNCHANGED lifeVars
    /\ UNCHANGED serverVars
    /\ UNCHANGED dueVars

\* shutdown_event, lines 77-80: DEL processing:<worker_id>.  The handler
\* runs on the event loop while process_queue is suspended at an await; it
\* neither cancels process_queue nor sets anything that loop looks at.
shutdown_event(w) ==
    /\ wlife[w] = "up"
    /\ wlife' = [wlife EXCEPT ![w] = "shutdown"]
    /\ processing' = [processing EXCEPT ![w] = <<>>]
    /\ UNCHANGED <<swarm_tasks, finished, wpc, wdata, wtask, nextUid, resOrder, hist>>
    /\ UNCHANGED schedVars
    /\ UNCHANGED submitVars
    /\ UNCHANGED statusVars
    /\ UNCHANGED secondVars
    /\ UNCHANGED serverVars
    /\ UNCHANGED dueVars

\* The server process ends after its shutdown handler has run; the
\* process_queue coroutine ends with it, wherever it is.
process_exit(w) ==
    /\ wlife[w] = "shutdown"
    /\ wlife' = [wlife EXCEPT ![w] = "exited"]
    /\ UNCHANGED queueVars
    /\ UNCHANGED schedVars
    /\ UNCHANGED submitVars
    /\ UNCHANGED statusVars
    /\ UNCHANGED secondVars
    /\ UNCHANGED serverVars
    /\ UNCHANGED dueVars

\* The worker process dies, without running its shutdown handler, between
\* its RPOPLPUSH and its LREM.  No code runs, the store keeps what it holds; a
\* process started in its place draws a new worker_id (line 13) and uses
\* another in-flight list.  (A process that dies while it holds nothing is a
\* worker that takes no further step.)
crash(w) ==
    /\ wlife[w] = "up"
    /\ wpc[w] \in {"process", "ack"}
    /\ wlife' = [wlife EXCEPT ![w] = "crashed"]
    /\ UNCHANGED queueVars
    /\ UNCHANGED schedVars
    /\ UNCHANGED submitVars
    /\ UNCHANGED statusVars
    /\ UNCHANGED secondVars
    /\ UNCHANGED serverVars
    /\ UNCHANGED dueVars

\* ------------------------------------------------- the schedule store
NoRun == -1
NoArg == -99

\* The arguments callers pass: schedule_task(task, schedule_type, interval)
\* and modify_starter_task(task_id, schedule_type=None, interval=None).
ScheduleCalls ==
    {<<TaskStarter, "minutes", -1>>, <<TaskStarter, "minutes", 1>>,
     <<TaskStarter, "hours", 1>>, <<TaskHuman, "minutes", -1>>}
ModifyTypes == {None, "hours"}
ModifyIntervals == {NoArg, -1, 0, 1}

\* timedelta(minutes=1), timedelta(hours=1), timedelta(days=1), in minutes;
\* an unknown schedule type defaults to minutes.
UnitMinutes(schedule_type) ==
    CASE schedule_type = "minutes" -> 1
      [] schedule_type = "hours" -> 60
      [] schedule_type = "days" -> 1440
      [] OTHER -> 1

calculate_next_run_NoInterval(clock, schedule_type, interval) == clock

\* RedisEngine._calculate_next_run, with the clock value datetime.now() reads.
calculate_next_run(clock, schedule_type, interval) ==
    LET i == IF interval = -1 THEN 0 ELSE interval
    IN clock + i * UnitMinutes(schedule_type)

\* json.dumps(schedule_info): the member of the sorted set.
json_dumps(info) ==
    <<info.task_id, info.task, info.schedule_type, info.interval, info.last_run>>

\* json.loads(task_data).
json_loads(m) ==
    [task_id |-> m[1], task |-> m[2], schedule_type |-> m[3],
     interval |-> m[4], last_run |-> m[5]]

\* ZADD key {member: score}: a sorted set holds a member once.
ZAdd(z, m, score) ==
    {e \in z : e.member # m} \cup {[member |-> m, score |-> score]}

\* ZREM key member.
ZRem(z, m) == {e \in z : e.member # m}

ZRangeByScore_Strict(z, lo, hi) == {e \in z : lo <= e.score /\ e.score < hi}

\* ZRANGEBYSCORE key lo hi.
ZRangeByScore(z, lo, hi) == {e \in z : lo <= e.score /\ e.score <= hi}

\* The entries a loop over a score-ordered reply may meet first.
First(z) == {e \in z : \A o \in z : e.score <= o.score}

Matching_Any(z, task_id) == z

\* The entries of the reply whose task_id is the one looked for.
Matching(z, task_id) == {e \in z : json_loads(e.member).task_id = task_id}

\* Python truthiness of the optional arguments: None, "" and 0 are false.
TruthyStr(arg) == arg # None /\ arg # ""

TruthyInt(arg) == arg # NoArg /\ arg # 0

\* History counters of the schedule store distinguish none, one, several.
Inc(n) == IF n < 2 THEN n + 1 ELSE n

\* get_due_tasks, line 95: only process starter tasks.
only_starter_Any(task) == TRUE

only_starter(task) == task.starter

NoCur == [sid |-> 0]
NoLoc == [op |-> "none"]
NoSHist ==
    [oneShot |-> FALSE, starter |-> FALSE, picked |-> 0, pushed |-> 0,
     early |-> FALSE, removed |-> FALSE]

\* RedisEngine.schedule_task: a fresh task_id, the next run from the clock,
\* one ZADD.
schedule_task_effect(task, schedule_type, interval) ==
    /\ nextId <= MaxSched
    /\ LET schedule_info ==
             [task_id |-> nextId, task |-> model_dump_json(task),
              schedule_type |-> schedule_type, interval |-> interval,
              last_run |-> NoRun]
           next_run == calculate_next_run(now, schedule_type, interval)
       IN sched' = ZAdd(sched, json_dumps(schedule_info), next_run)
    /\ shist' = [shist EXCEPT ![nextId] =
                    [@ EXCEPT !.oneShot = (interval = -1),
                              !.starter = task.starter]]
    /\ nextId' = nextId + 1

\* A caller schedules a task while the scheduler thread runs.
schedule_task(c, task, schedule_type, interval) ==
    /\ cpc[c] = "idle"
    /\ schedule_task_effect(task, schedule_type, interval)
    /\ UNCHANGED <<now, spc, s_time, s_due, s_cur, s_tasks, cpc, c_loc, nOps>>
    /\ UNCHANGED queueVars
    /\ UNCHANGED submitVars
    /\ UNCHANGED statusVars
    /\ UNCHANGED secondVars
    /\ UNCHANGED lifeVars
    /\ UNCHANGED serverVars
    /\ UNCHANGED dueVars

\* RedisEngine.modify_starter_task, lines 54-63: ZRANGE, find the entry,
\* update the copy; returns False when no entry has the id.
modify_starter_task_read(c, task_id, schedule_type, interval) ==
    /\ cpc[c] = "idle"
    /\ LET found == First(Matching(sched, task_id))
       IN IF found = {}
          THEN UNCHANGED <<cpc, c_loc, nOps, shist>>
          ELSE \E e \in found :
               LET task_info == json_loads(e.member)
                   info1 == IF TruthyStr(schedule_type)
                            THEN [task_info EXCEPT !.schedule_type = schedule_type]
                            ELSE task_info
                   info2 == IF TruthyInt(interval)
                            THEN [info1 EXCEPT !.interval = interval]
                            ELSE info1
               IN /\ nOps < MaxOps
                  /\ nOps' = nOps + 1
                  /\ c_loc' = [c_loc EXCEPT ![c] =
                                 [op |-> "modify", task_data |-> e.member,
                                  task_info |-> info2]]
                  /\ cpc' = [cpc EXCEPT ![c] = "modify_zrem"]
                  /\ shist' = [shist EXCEPT ![task_id].oneShot =
                                  @ /\ info2.interval = -1]
    /\ UNCHANGED <<sched, now, nextId, spc, s_time, s_due, s_cur, s_tasks>>
    /\ UNCHANGED queueVars
    /\ UNCHANGED submitVars
    /\ UNCHANGED statusVars
    /\ UNCHANGED secondVars
    /\ UNCHANGED lifeVars
    /\ UNCHANGED serverVars
    /\ UNCHANGED dueVars

\* modify_starter_task, line 66: ZREM of the entry as read.
modify_starter_task_zrem(c) ==
    /\ cpc[c] = "modify_zrem"
    /\ sched' = ZRem(sched, c_loc[c].task_data)
    /\ cpc' = [cpc EXCEPT ![c] = "modify_zadd"]
    /\ UNCHANGED <<now, nextId, spc, s_time, s_due, s_cur, s_tasks, c_loc, nOps, shist>>
    /\ UNCHANGED queueVars
    /\ UNCHANGED submitVars
    /\ UNCHANGED statusVars
    /\ UNCHANGED secondVars
    /\ UNCHANGED lifeVars
    /\ UNCHANGED serverVars
    /\ UNCHANGED dueVars

\* modify_starter_task, lines 67-69: next run from the clock, ZADD.
modify_starter_task_zadd(c) ==
    /\ cpc[c] = "modify_zadd"
    /\ LET task_info == c_loc[c].task_info
           next_run == calculate_next_run(now, task_info.schedule_type,
                                          task_info.interval)
       IN sched' = ZAdd(sched, json_dumps(task_info), next_run)
    /\ cpc' = [cpc EXCEPT ![c] = "idle"]
    /\ c_loc' = [c_loc EXCEPT ![c] = NoLoc]
    /\ UNCHANGED <<now, nextId, spc, s_time, s_due, s_cur, s_tasks, nOps, shist>>
    /\ UNCHANGED queueVars
    /\ UNCHANGED submitVars
    /\ UNCHANGED statusVars
    /\ UNCHANGED secondVars
    /\ UNCHANGED lifeVars
    /\ UNCHANGED serverVars
    /\ UNCHANGED dueVars

\* RedisEngine.remove_starter_task, lines 74-77: ZRANGE, find the entry.
remove_starter_task_read(c, task_id) ==
    /\ cpc[c] = "idle"
    /\ LET found == First(Matching(sched, task_id))
       IN IF found = {}
          THEN UNCHANGED <<cpc, c_loc, nOps>>
          ELSE \E e \in found :
               /\ nOps < MaxOps
               /\ nOps' = nOps + 1
               /\ c_loc' = [c_loc EXCEPT ![c] =
                              [op |-> "remove", task_data |-> e.member]]
               /\ cpc' = [cpc EXCEPT ![c] = "remove_zrem"]
    /\ UNCHANGED <<sched, now, nextId, spc, s_time, s_due, s_cur, s_tasks, shist>>
    /\ UNCHANGED queueVars
    /\ UNCHANGED submitVars
    /\ UNCHANGED statusVars
    /\ UNCHANGED secondVars
    /\ UNCHANGED lifeVars
    /\ UNCHANGED serverVars
    /\ UNCHANGED dueVars

\* remove_starter_task, line 78: ZREM of the entry as read; the call returns
\* True when the ZREM removed a member.
remove_starter_task_zrem(c) ==
    /\ cpc[c] = "remove_zrem"
    /\ sched' = ZRem(sched, c_loc[c].task_data)
    /\ LET returned == \E e \in sched : e.member = c_loc[c].task_data
           task_id == json_loads(c_loc[c].task_data).task_id
       IN shist' = [shist EXCEPT ![task_id].removed = @ \/ returned]
    /\ cpc' = [cpc EXCEPT ![c] = "idle"]
    /\ c_loc' = [c_loc EXCEPT ![c] = NoLoc]
    /\ UNCHANGED <<now, nextId, spc, s_time, s_due, s_cur, s_tasks, nOps>>
    /\ UNCHANGED queueVars
    /\ UNCHANGED submitVars
    /\ UNCHANGED statusVars
    /\ UNCHANGED secondVars
    /\ UNCHANGED lifeVars
    /\ UNCHANGED serverVars
    /\ UNCHANGED dueVars

\* ------------------------------------------------- the scheduler thread
\* _run_scheduler, lines 162-165: the except clause logs and sleeps.
run_scheduler_on_error_stop == "stopped"

run_scheduler_on_error == "except"

\* What the scheduler's locals are once a tick has ended.
scheduler_locals_cleared ==
    /\ s_time' = 0
    /\ s_due' = {}
    /\ s_cur' = NoCur
    /\ s_tasks' = <<>>

\* get_due_tasks, lines 82-89: read the clock, ZRANGEBYSCORE 0 current_time.
get_due_tasks_read ==
    /\ spc = "tick"
    /\ \E storeOk \in BOOLEAN :
         IF storeOk
         THEN /\ s_time' = now
              /\ s_due' = ZRangeByScore(sched, 0, now)
              /\ spc' = "loop"
         ELSE /\ spc' = run_scheduler_on_error
              /\ UNCHANGED <<s_time, s_due>>
    /\ UNCHANGED <<sched, now, nextId, s_cur, s_tasks, cpc, c_loc, nOps, shist>>
    /\ UNCHANGED queueVars
    /\ UNCHANGED submitVars
    /\ UNCHANGED statusVars
    /\ UNCHANGED secondVars
    /\ UNCHANGED lifeVars
    /\ UNCHANGED serverVars
    /\ UNCHANGED dueVars

\* get_due_tasks, lines 90-110, one entry of the loop up to its ZREM: a
\* non-starter template is skipped; a starter's entry is removed and, when
\* its interval is -1, its task joins tasks_to_run at once.
get_due_tasks_entry ==
    /\ spc = "loop"
    /\ s_due # {}
    /\ \E e \in First(s_due) :
         LET task_info == json_loads(e.member)
             task == model_validate_json(task_info.task)
             info2 == [task_info EXCEPT !.last_run = s_time]
             next_run == calculate_next_run(now, task_info.schedule_type,
                                            task_info.interval)
             sid == task_info.task_id
         IN IF ~only_starter(task)
            THEN /\ s_due' = s_due \ {e}
                 /\ UNCHANGED <<sched, spc, s_time, s_cur, s_tasks, shist>>
            ELSE \E storeOk \in BOOLEAN :
                 IF ~storeOk
                 THEN /\ spc' = run_scheduler_on_error
                      /\ scheduler_locals_cleared
                      /\ UNCHANGED <<sched, shist>>
                 ELSE /\ sched' = ZRem(sched, e.member)
                      /\ s_due' = s_due \ {e}
                      /\ shist' = [shist EXCEPT ![sid].picked = Inc(@),
                                                ![sid].early =
                                                    @ \/ e.score > s_time]
                      /\ IF task_info.interval # -1
                         THEN /\ s_cur' = [sid |-> sid, info |-> info2,
                                           next_run |-> next_run, task |-> task]
                              /\ spc' = "zadd"
                              /\ UNCHANGED <<s_time, s_tasks>>
                         ELSE /\ s_tasks' = Append(s_tasks, [task |-> task, sid |-> sid])
                              /\ UNCHANGED <<spc, s_time, s_cur>>
    /\ UNCHANGED <<now, nextId, cpc, c_loc, nOps>>
    /\ UNCHANGED queueVars
    /\ UNCHANGED submitVars
    /\ UNCHANGED statusVars
    /\ UNCHANGED secondVars
    /\ UNCHANGED lifeVars
    /\ UNCHANGED serverVars
    /\ UNCHANGED dueVars

\* get_due_tasks, lines 107-110: ZADD of the updated entry, then the task
\* joins tasks_to_run.
get_due_tasks_zadd ==
    /\ spc = "zadd"
    /\ \E storeOk \in BOOLEAN :
         IF storeOk
         THEN /\ sched' = ZAdd(sched, json_dumps(s_cur.info), s_cur.next_run)
              /\ s_tasks' = Append(s_tasks, [task |-> s_cur.task, sid |-> s_cur.sid])
              /\ s_cur' = NoCur
              /\ spc' = "loop"
              /\ UNCHANGED <<s_time, s_due>>
         ELSE /\ spc' = run_scheduler_on_error
              /\ scheduler_locals_cleared
              /\ UNCHANGED sched
    /\ UNCHANGED <<now, nextId, cpc, c_loc, nOps, shist>>
    /\ UNCHANGED queueVars
    /\ UNCHANGED submitVars
    /\ UNCHANGED statusVars
    /\ UNCHANGED secondVars
    /\ UNCHANGED lifeVars
    /\ UNCHANGED serverVars
    /\ UNCHANGED dueVars

\* _run_scheduler, lines 156-157: execute_task (add_task) of the next task
\* get_due_tasks returned.
run_scheduler_execute ==
    /\ spc = "loop"
    /\ s_due = {}
    /\ s_tasks # <<>>
    /\ \E storeOk \in BOOLEAN :
         IF storeOk
         THEN /\ add_task_effect(Head(s_tasks).task)
              /\ shist' = [shist EXCEPT ![Head(s_tasks).sid].pushed = Inc(@)]
              /\ s_tasks' = Tail(s_tasks)
              /\ UNCHANGED <<spc, s_time, s_due, s_cur>>
         ELSE /\ spc' = run_scheduler_on_error
              /\ scheduler_locals_cleared
              /\ UNCHANGED <<swarm_tasks, nextUid, hist, shist>>
    /\ UNCHANGED <<sched, now, nextId, cpc, c_loc, nOps>>
    /\ UNCHANGED workerVars
    /\ UNCHANGED submitVars
    /\ UNCHANGED statusVars
    /\ UNCHANGED secondVars
    /\ UNCHANGED lifeVars
    /\ UNCHANGED serverVars
    /\ UNCHANGED dueVars

\* _run_scheduler, line 160: the tick is done, sleep, then the next tick.
run_scheduler_sleep ==
    /\ spc = "loop"
    /\ s_due = {}
    /\ s_tasks = <<>>
    /\ spc' = "tick"
    /\ s_time' = 0
    /\ UNCHANGED <<sched, now, nextId, s_due, s_cur, s_tasks, cpc, c_loc, nOps, shist>>
    /\ UNCHANGED queueVars
    /\ UNCHANGED submitVars
    /\ UNCHANGED statusVars
    /\ UNCHANGED secondVars
    /\ UNCHANGED lifeVars
    /\ UNCHANGED serverVars
    /\ UNCHANGED dueVars

\* _run_scheduler, lines 162-165: log the error, sleep, then the next tick.
run_scheduler_except ==
    /\ spc = "except"
    /\ spc' = "tick"
    /\ UNCHANGED <<sched, now, nextId, s_time, s_due, s_cur, s_tasks, cpc, c_loc, nOps, shist>>
    /\ UNCHANGED queueVars
    /\ UNCHANGED submitVars
    /\ UNCHANGED statusVars
    /\ UNCHANGED secondVars
    /\ UNCHANGED lifeVars
    /\ UNCHANGED serverVars
    /\ UNCHANGED dueVars

\* Time passes.
advance_clock ==
    /\ now < MaxTime
    /\ now' = now + 1
    /\ UNCHANGED <<sched, nextId, spc, s_time, s_due, s_cur, s_tasks, cpc, c_loc, nOps, shist>>
    /\ UNCHANGED queueVars
    /\ UNCHANGED submitVars
    /\ UNCHANGED statusVars
    /\ UNCHANGED secondVars
    /\ UNCHANGED lifeVars
    /\ UNCHANGED serverVars
    /\ UNCHANGED dueVars

\* ------------------------------------------- direct calls of the engine
\* A program that uses the engine without the scheduler thread (as the
\* engine's tests do) calls schedule_task and get_due_tasks itself, one
\* call after the other.
DueCalls ==
    {<<TaskStarter, "minutes", 5>>, <<TaskStarter, "minutes", -1>>,
     <<TaskHuman, "minutes", 5>>}

\* The recurring schedules of the runs in which the scheduler misses ticks.
CatchUpCalls == {<<TaskStarter, "minutes", 1>>, <<TaskStarter, "minutes", 2>>}

NoRet == [at |-> -1]

\* RedisEngine.get_due_tasks, lines 89-112, as one uninterrupted call: the
\* loop over the due entries, from the store z; current_time is what
\* time.time() returned at line 82, later what datetime.now() returns in
\* _calculate_next_run; the result is the store the loop leaves and
\* tasks_to_run (each task with the task_id of its entry as a history tag).
RECURSIVE GetDueTasks(_, _, _, _, _)
GetDueTasks(due, z, current_time, later, tasks_to_run) ==
    IF due = {}
    THEN [store |-> z, tasks |-> tasks_to_run]
    ELSE LET e == CHOOSE x \in First(due) : TRUE
             task_info == json_loads(e.member)
             task == model_validate_json(task_info.task)
             info2 == [task_info EXCEPT !.last_run = current_time]
             next_run == calculate_next_run(later, task_info.schedule_type,
                                            task_info.interval)
             z1 == ZRem(z, e.member)
             z2 == IF task_info.interval # -1
                   THEN ZAdd(z1, json_dumps(info2), next_run)
                   ELSE z1
         IN IF only_starter(task)
            THEN GetDueTasks(due \ {e}, z2, current_time, later,
                             Append(tasks_to_run,
                                    [task |-> task, sid |-> task_info.task_id]))
            ELSE GetDueTasks(due \ {e}, z, current_time, later, tasks_to_run)

\* schedule_task called directly.
direct_schedule_task(task, schedule_type, interval) ==
    /\ schedule_task_effect(task, schedule_type, interval)
    /\ d_created' = [d_created EXCEPT ![nextId] = now]
    /\ UNCHANGED <<now, spc, s_time, s_due, s_cur, s_tasks, cpc, c_loc, nOps, d_ret, d_op>>
    /\ UNCHANGED queueVars
    /\ UNCHANGED submitVars
    /\ UNCHANGED statusVars
    /\ UNCHANGED secondVars
    /\ UNCHANGED lifeVars
    /\ UNCHANGED serverVars

\* How long a get_due_tasks call may take, in minutes: the time between its
\* two readings of the clock.
Elapsed == {0, 1}

\* get_due_tasks called directly: lines 82-87 read the clock and the due
\* entries, then the loop runs; the clock the loop reads is the time of the
\* call plus the time the call has taken so far.
direct_get_due_tasks ==
    /\ \E elapsed \in Elapsed :
         LET current_time == now
             r == GetDueTasks(ZRangeByScore(sched, 0, current_time), sched,
                              current_time, current_time + elapsed, <<>>)
         IN /\ now + elapsed <= MaxDueTime
            /\ now' = now + elapsed
            /\ sched' = r.store
            /\ d_ret' = [at |-> current_time, before |-> sched,
                         after |-> r.store, tasks |-> r.tasks]
            /\ d_fired' = [i \in SchedIds |->
                              IF \E k \in 1..Len(r.tasks) : r.tasks[k].sid = i
                              THEN current_time
                              ELSE d_fired[i]]
    /\ UNCHANGED <<nextId, spc, s_time, s_due, s_cur, s_tasks, cpc, c_loc, nOps, shist, d_created, d_op>>
    /\ UNCHANGED d_status
    /\ UNCHANGED secondVars
    /\ UNCHANGED queueVars
    /\ UNCHANGED submitVars
    /\ UNCHANGED lifeVars
    /\ UNCHANGED serverVars

\* get_due_tasks called directly by a caller that drops the list returned,
\* the call taking less than a minute: the entries that are due fire.
get_due_tasks_quick ==
    /\ sched' = GetDueTasks(ZRangeByScore(sched, 0, now), sched, now, now, <<>>).store
    /\ sched' # sched
    /\ UNCHANGED <<now, nextId, spc, s_time, s_due, s_cur, s_tasks, cpc, c_loc, nOps, shist>>
    /\ UNCHANGED dueVars
    /\ UNCHANGED statusVars
    /\ UNCHANGED secondVars
    /\ UNCHANGED queueVars
    /\ UNCHANGED submitVars
    /\ UNCHANGED lifeVars
    /\ UNCHANGED serverVars

NoOp == [op |-> "none"]

\* The arguments of the modify calls made on entries that have fired: a new
\* schedule type alone, a new interval alone.
FrameCalls == {<<"hours", NoArg>>, <<None, 2>>}

\* The ids a direct modify / remove call is given: the ids schedule_task
\* returns and 0, an id it never returned.
CallIds == {0} \cup SchedIds

ModifyStarterTask_NewInfo(z, task_id, schedule_type, interval, clock) ==
    LET found == First(Matching(z, task_id))
    IN IF found = {}
       THEN [ret |-> FALSE, store |-> z]
       ELSE LET e == CHOOSE x \in found : TRUE
                task_info == [json_loads(e.member) EXCEPT !.last_run = NoRun]
                info1 == IF TruthyStr(schedule_type)
                         THEN [task_info EXCEPT !.schedule_type = schedule_type]
                         ELSE task_info
                info2 == IF TruthyInt(interval)
                         THEN [info1 EXCEPT !.interval = interval]
                         ELSE info1
                next_run == calculate_next_run(clock, info2.schedule_type,
                                               info2.interval)
            IN [ret |-> TRUE,
                store |-> ZAdd(ZRem(z, e.member), json_dumps(info2), next_run)]

\* RedisEngine.modify_starter_task as one uninterrupted call on the store z
\* with the clock reading clock: the value returned and the store it leaves.
ModifyStarterTask(z, task_id, schedule_type, interval, clock) ==
    LET found == First(Matching(z, task_id))
    IN IF found = {}
       THEN [ret |-> FALSE, store |-> z]
       ELSE LET e == CHOOSE x \in found : TRUE
                task_info == json_loads(e.member)
                info1 == IF TruthyStr(schedule_type)
                         THEN [task_info EXCEPT !.schedule_type = schedule_type]
                         ELSE task_info
                info2 == IF TruthyInt(interval)
                         THEN [info1 EXCEPT !.interval = interval]
                         ELSE info1
                next_run == calculate_next_run(clock, info2.schedule_type,
                                               info2.interval)
            IN [ret |-> TRUE,
                store |-> ZAdd(ZRem(z, e.member), json_dumps(info2), next_run)]

\* RedisEngine.remove_starter_task as one uninterrupted call: ZREM returns
\* 1 for the member just read.
RemoveStarterTask(z, task_id) ==
    LET found == First(Matching(z, task_id))
    IN IF found = {}
       THEN [ret |-> FALSE, store |-> z]
       ELSE LET e == CHOOSE x \in found : TRUE
            IN [ret |-> TRUE, store |-> ZRem(z, e.member)]

\* modify_starter_task called directly.
direct_modify_starter_task(task_id, schedule_type, interval) ==
    /\ LET r == ModifyStarterTask(sched, task_id, schedule_type, interval, now)
       IN /\ sched' = r.store
          /\ d_op' = [op |-> "modify", task_id |-> task_id,
                      schedule_type |-> schedule_type, interval |-> interval,
                      at |-> now, ret |-> r.ret, before |-> sched,
                      after |-> r.store, queue |-> swarm_tasks]
    /\ UNCHANGED <<now, nextId, spc, s_time, s_due, s_cur, s_tasks, cpc, c_loc, nOps, shist, d_ret, d_created>>
    /\ UNCHANGED queueVars
    /\ UNCHANGED submitVars
    /\ UNCHANGED statusVars
    /\ UNCHANGED secondVars
    /\ UNCHANGED lifeVars
    /\ UNCHANGED serverVars

\* remove_starter_task called directly.
direct_remove_starter_task(task_id) ==
    /\ LET r == RemoveStarterTask(sched, task_id)
       IN /\ sched' = r.store
          /\ d_op' = [op |-> "remove", task_id |-> task_id, at |-> now,
                      ret |-> r.ret, before |-> sched, after |-> r.store,
                      queue |-> swarm_tasks]
    /\ UNCHANGED <<now, nextId, spc, s_time, s_due, s_cur, s_tasks, cpc, c_loc, nOps, shist, d_ret, d_created>>
    /\ UNCHANGED queueVars
    /\ UNCHANGED submitVars
    /\ UNCHANGED statusVars
    /\ UNCHANGED secondVars
    /\ UNCHANGED lifeVars
    /\ UNCHANGED serverVars

\* ZSCORE key member: the score of the member, None when it is not stored.
ZScore_Zero(z, m) == 0

ZScore(z, m) ==
    IF \E e \in z : e.member = m
    THEN (CHOOSE e \in z : e.member = m).score
    ELSE NoRun

\* The entries whose status is asked for: a recurring and a one-shot starter.
StatusCalls == {<<TaskStarter, "minutes", 1>>, <<TaskStarter, "minutes", -1>>}

NoStatus == [task_id |-> 0]
NoStatusCall == [op |-> "none"]

\* RedisEngine.get_task_status, lines 130-143, as one uninterrupted call: the
\* dict of the first entry with the task_id, or None.
GetTaskStatus(z, task_id) ==
    LET found == First(Matching(z, task_id))
    IN IF found = {}
       THEN NoStatus
       ELSE LET e == CHOOSE x \in found : TRUE
                task_info == json_loads(e.member)
            IN [task_id |-> task_id, last_run |-> task_info.last_run,
                next_run |-> ZScore(z, e.member),
                schedule_type |-> task_info.schedule_type,
                interval |-> task_info.interval]

\* get_task_status called directly.
direct_get_task_status(task_id) ==
    /\ d_status' = [op |-> "status", task_id |-> task_id,
                    ret |-> GetTaskStatus(sched, task_id), store |-> sched,
                    fired |-> IF task_id \in SchedIds THEN d_fired[task_id]
                              ELSE NoRun]
    /\ UNCHANGED d_fired
    /\ UNCHANGED secondVars
    /\ UNCHANGED schedVars
    /\ UNCHANGED dueVars
    /\ UNCHANGED queueVars
    /\ UNCHANGED submitVars
    /\ UNCHANGED lifeVars
    /\ UNCHANGED serverVars

\* Time passes between two direct calls.
pass_time ==
    /\ now < MaxDueTime
    /\ now' = now + 1
    /\ UNCHANGED <<sched, nextId, spc, s_time, s_due, s_cur, s_tasks, cpc, c_loc, nOps, shist>>
    /\ UNCHANGED queueVars
    /\ UNCHANGED submitVars
    /\ UNCHANGED statusVars
    /\ UNCHANGED secondVars
    /\ UNCHANGED lifeVars
    /\ UNCHANGED serverVars
    /\ UNCHANGED dueVars

\* ---------------------------------------------- a second scheduler loop
\* Each server process starts its own scheduler thread (lifespan, server
\* main.py lines 12-15); the threads of two processes share the schedule
\* store.  The second loop's get_due_tasks is taken as one uninterrupted call,
\* one of the ways it can run against the first loop.
second_get_due_tasks ==
    /\ b_tasks = <<>>
    /\ LET r == GetDueTasks(ZRangeByScore(sched, 0, now), sched, now, now, <<>>)
       IN /\ r.tasks # <<>>
          /\ sched' = r.store
          /\ b_tasks' = r.tasks
    /\ UNCHANGED b_pushed
    /\ UNCHANGED <<now, nextId, spc, s_time, s_due, s_cur, s_tasks, cpc, c_loc, nOps, shist>>
    /\ UNCHANGED queueVars
    /\ UNCHANGED submitVars
    /\ UNCHANGED statusVars
    /\ UNCHANGED lifeVars
    /\ UNCHANGED serverVars
    /\ UNCHANGED dueVars

\* The second loop's execute_task of the next task its get_due_tasks
\* returned; an error ends the tick in the except clause.
second_run_scheduler_execute ==
    /\ b_tasks # <<>>
    /\ \E storeOk \in BOOLEAN :
         IF storeOk
         THEN /\ add_task_effect(Head(b_tasks).task)
              /\ b_pushed' = [b_pushed EXCEPT ![Head(b_tasks).sid] = Inc(@)]
              /\ b_tasks' = Tail(b_tasks)
         ELSE /\ b_tasks' = <<>>
              /\ UNCHANGED <<swarm_tasks, nextUid, hist, b_pushed>>
    /\ UNCHANGED schedVars
    /\ UNCHANGED workerVars
    /\ UNCHANGED submitVars
    /\ UNCHANGED statusVars
    /\ UNCHANGED lifeVars
    /\ UNCHANGED serverVars
    /\ UNCHANGED dueVars

\* ------------------------------------------------------- the form server
\* The rows of the forms table (MetaTables): each form has its operations
\* (table, the payload keys it inserts) and its next_step (NULL, or the
\* next form's name, conditions, field template and type).
NoStep == [form_name |-> "none"]

NextStep(form_name, conditions) ==
    [form_name |-> form_name, conditions |-> conditions,
     fields |-> AllUnset, type |-> "ai"]

\* A next_step that declares only its form and field template (as the
\* forms of the engine's tests do), and one that declares everything.
NextStepPlain(form_name) == [form_name |-> form_name, fields |-> AllUnset]

NextStepFull(form_name, conditions, fields, type, external) ==
    [form_name |-> form_name, conditions |-> conditions, fields |-> fields,
     type |-> type, external |-> external]

Operation(table) == [table |-> table, data |-> {"status"}]

Forms ==
    ("order_pending" :>
        [operations |-> <<Operation("orders")>>,
         next_step |-> NextStep("ship", "orders" :> ("status" :> "pending"))])
    @@ ("order_shipped" :>
        [operations |-> <<Operation("orders")>>,
         next_step |-> NextStep("ship", "orders" :> ("status" :> "shipped"))])
    @@ ("order_and_ship" :>
        [operations |-> <<Operation("orders"), Operation("shipments")>>,
         next_step |-> NextStep("ship", "orders" :> ("status" :> "pending"))])
    @@ ("order_unwritten" :>
        [operations |-> <<Operation("orders")>>,
         next_step |-> NextStep("ship", "shipments" :> ("status" :> "shipped"))])
    @@ ("order_always" :>
        [operations |-> <<Operation("orders")>>,
         next_step |-> NextStep("ship", <<>>)])
    @@ ("order_plain" :>
        [operations |-> <<Operation("orders")>>,
         next_step |-> NextStepPlain("ship")])
    @@ ("order_review" :>
        [operations |-> <<Operation("orders")>>,
         next_step |-> NextStepFull("review", <<>>, SomeSet, "human", TRUE)])
    @@ ("ship" :>
        [operations |-> <<Operation("shipments")>>, next_step |-> NoStep])

\* The form names and the JSON payloads clients post.
RequestNames == DOMAIN Forms \cup {"unknown"}
Payloads == {"status" :> "pending", "status" :> "shipped"}

NoForm == [operations |-> <<>>, next_step |-> NoStep, found |-> FALSE]

get_form_by_name_Default(name) ==
    IF name \in DOMAIN Forms THEN Forms[name] ELSE Forms["ship"]

\* MetaTables.get_form_by_name: the row of the form, or None.
get_form_by_name(name) ==
    IF name \in DOMAIN Forms THEN Forms[name] ELSE NoForm

\* dict.get(key): None for a missing key.
Get(dict, key) == IF key \in DOMAIN dict THEN dict[key] ELSE None

check_conditions_True(conditions, results) == TRUE

check_conditions_NonEmpty(conditions, results) == DOMAIN conditions # {}

\* execute_form.check_conditions, lines 42-61: every result whose table has
\* conditions must have each conditioned field equal to the expected value
\* (the expected values of a stored form are JSON values, never callables).
check_conditions(conditions, results) ==
    \/ DOMAIN conditions = {}
    \/ \A i \in 1..Len(results) :
          LET result == results[i]
              table_conditions == IF result.table \in DOMAIN conditions
                                  THEN conditions[result.table]
                                  ELSE <<>>
          IN \A field \in DOMAIN table_conditions :
                Get(result.data, field) = table_conditions[field]

\* execute_form, lines 79-90: one INSERT ... RETURNING * per operation, with
\* the payload's values for the operation's keys.
Results(operations, payload) ==
    [i \in 1..Len(operations) |->
        [table |-> operations[i].table,
         data |-> [k \in operations[i].data \cap DOMAIN payload |-> payload[k]]]]

\* dict.get(key, default).
GetOr(dict, key, default) == IF key \in DOMAIN dict THEN dict[key] ELSE default

\* execute_form, lines 98-106: the task for the next step.
next_task(next_step) ==
    [description |-> "Execute form " \o next_step.form_name,
     callback_url |-> "http://test_app:8000/forms/" \o next_step.form_name,
     fields |-> next_step.fields,
     tool |-> GetOr(next_step, "tool", ""),
     type |-> GetOr(next_step, "type", "ai"),
     external |-> GetOr(next_step, "external", FALSE),
     report_url |-> GetOr(next_step, "report_url", ""),
     starter |-> FALSE]

Committed_Partial(results, failAt) ==
    IF failAt = 0 THEN results ELSE SubSeq(results, 1, failAt - 1)

\* execute_form, lines 77-90: the INSERTs run inside connection.begin();
\* when the INSERT of operation failAt raises the block rolls back, when
\* none raises (failAt = 0) the block commits every row.
Committed(results, failAt) == IF failAt = 0 THEN results ELSE <<>>

\* The response to a request: the HTTP status code, the body's status,
\* results and next_step_status; written, enqueued and write_failed are
\* history: how many rows and how many tasks the request added, and
\* whether one of its INSERTs raised.
Response(form_name, payload, code, results, next_step_status, written, enqueued, write_failed) ==
    [form_name |-> form_name, payload |-> payload, code |-> code,
     status |-> IF code = 200 THEN "success" ELSE "error",
     results |-> results, next_step_status |-> next_step_status,
     written |-> written, enqueued |-> enqueued,
     write_failed |-> write_failed]

NoResp == Response("none", <<>>, 0, <<>>, "", 0, 0, FALSE)

\* POST /forms/{form_name}: execute_form, lines 40-117.
execute_form(form_name, payload) ==
    /\ LET form == get_form_by_name(form_name)
       IN IF form = NoForm
          THEN /\ UNCHANGED <<db, swarm_tasks, nextUid, hist>>
               /\ resp' = Response(form_name, payload, 404, <<>>, "", 0, 0, FALSE)
          ELSE \E failAt \in 0..Len(form.operations), storeOk \in BOOLEAN :
               LET results == Results(form.operations, payload)
                   next_step == form.next_step
                   chain == /\ failAt = 0
                            /\ next_step # NoStep
                            /\ check_conditions(GetOr(next_step, "conditions", <<>>),
                                                results)
                   raised == failAt # 0 \/ (chain /\ ~storeOk)
               IN /\ chain \/ storeOk
                  /\ failAt = 0 => Len(db) + Len(results) <= MaxRows
                  /\ db' = db \o Committed(results, failAt)
                  /\ IF chain /\ storeOk
                     THEN add_task_effect(next_task(next_step))
                     ELSE UNCHANGED <<swarm_tasks, nextUid, hist>>
                  /\ resp' = Response(form_name, payload,
                                      IF raised THEN 500 ELSE 200,
                                      IF raised THEN <<>> ELSE results,
                                      IF raised THEN ""
                                      ELSE IF chain
                                           THEN "Next step added to Redis queue"
                                           ELSE "No Next Step",
                                      Len(db') - Len(db),
                                      Len(swarm_tasks') - Len(swarm_tasks),
                                      failAt # 0)
    /\ UNCHANGED workerVars
    /\ UNCHANGED submitVars
    /\ UNCHANGED statusVars
    /\ UNCHANGED secondVars
    /\ UNCHANGED lifeVars
    /\ UNCHANGED schedVars
    /\ UNCHANGED submitVars
    /\ UNCHANGED statusVars
    /\ UNCHANGED secondVars
    /\ UNCHANGED lifeVars
    /\ UNCHANGED dueVars

\* ---------------------------------------------- direct calls of add_task
\* The tasks a program submits by calling add_task itself: SwarmTask
\* instances and dicts, well-formed and malformed.
TaskExternal ==
    [SwarmTask("external form", "", "http://e/", [a |-> "", b |-> None],
               "human", TRUE, FALSE) EXCEPT !.tool = "browser"]

DictRequiredOnly ==
    [description |-> "dict", callback_url |-> "http://d/", fields |-> SomeSet,
     type |-> "ai"]

ValidTasks == {TaskAI, TaskHuman, TaskStarter, TaskExternal, DictRequiredOnly}

MalformedTasks ==
    {[description |-> "Invalid task"],
     [description |-> "Task with invalid URL",
      callback_url |-> "not-a-valid-url", fields |-> SomeSet, type |-> "ai"],
     [description |-> "no callback", fields |-> SomeSet, type |-> "ai"],
     [description |-> "no fields", callback_url |-> "http://t/", type |-> "ai"],
     [description |-> "no type", callback_url |-> "http://t/", fields |-> SomeSet],
     [description |-> "bad type", callback_url |-> "http://t/",
      fields |-> SomeSet, type |-> "test_type"]}

\* schemas.py: the fields declared with `...` are required.
RequiredFields == {"description", "callback_url", "fields", "type"}

\* HttpUrl: of the strings above, the ones that are not a URL.
NotUrls == {"not-a-valid-url"}

IsValidTask_AnyUrl(task) ==
    /\ RequiredFields \subseteq DOMAIN task
    /\ task.type \in {"human", "ai"}

\* SwarmTask.model_validate accepts the task.
IsValidTask(task) ==
    /\ RequiredFields \subseteq DOMAIN task
    /\ task.callback_url \notin NotUrls
    /\ task.type \in {"human", "ai"}

\* SwarmTask.model_validate: the validated task, defaults filled in.
model_validate(task) ==
    [description |-> task.description, tool |-> GetOr(task, "tool", ""),
     report_url |-> GetOr(task, "report_url", ""),
     callback_url |-> task.callback_url, fields |-> task.fields,
     type |-> task.type, external |-> GetOr(task, "external", FALSE),
     starter |-> GetOr(task, "starter", FALSE)]

NoAdd == [op |-> "none"]

\* RedisEngine.add_task called directly, lines 21-23: model_validate raises
\* ValidationError, or the validated task is LPUSHed.
direct_add_task(task) ==
    /\ IF IsValidTask(task)
       THEN add_task_effect(model_validate(task))
       ELSE UNCHANGED <<swarm_tasks, nextUid, hist>>
    /\ q_ret' = [op |-> "add_task", task |-> task,
                 ret |-> IF IsValidTask(task) THEN "ok" ELSE "ValidationError",
                 before |-> swarm_tasks, after |-> swarm_tasks']
    /\ UNCHANGED workerVars
    /\ UNCHANGED schedVars
    /\ UNCHANGED dueVars
    /\ UNCHANGED serverVars
    /\ UNCHANGED lifeVars
    /\ UNCHANGED statusVars
    /\ UNCHANGED secondVars

\* RedisEngine.get_task called directly, lines 25-30: RPOP, then the task
\* deserialized, or None when the queue is empty.
direct_get_task ==
    /\ IF swarm_tasks = <<>>
       THEN /\ q_ret' = [op |-> "get_task", before |-> swarm_tasks,
                         ret |-> NoTask]
            /\ UNCHANGED <<swarm_tasks, resOrder, hist>>
       ELSE LET e == RPopValue(swarm_tasks) IN
            /\ swarm_tasks' = RPopRest(swarm_tasks)
            /\ resOrder' = Append(resOrder, e.uid)
            /\ hist' = [hist EXCEPT ![e.uid].res = @ + 1,
                                    ![e.uid].got = model_validate_json(e.data)]
            /\ q_ret' = [op |-> "get_task", before |-> swarm_tasks,
                         ret |-> model_validate_json(e.data)]
    /\ UNCHANGED <<processing, finished, wpc, wdata, wtask, nextUid>>
    /\ UNCHANGED schedVars
    /\ UNCHANGED dueVars
    /\ UNCHANGED serverVars
    /\ UNCHANGED lifeVars
    /\ UNCHANGED statusVars
    /\ UNCHANGED secondVars

\* ------------------------------------------------------- specifications
Init ==
    /\ swarm_tasks = <<>>
    /\ processing = [w \in Workers |-> <<>>]
    /\ finished = <<>>
    /\ wpc = [w \in Workers |-> "reserve"]
    /\ wdata = [w \in Workers |-> NoEntry]
    /\ wtask = [w \in Workers |-> NoTask]
    /\ nextUid = 1
    /\ resOrder = <<>>
    /\ hist = [u \in Uids |-> NoHist]
    /\ sched = {}
    /\ now = 0
    /\ nextId = 1
    /\ spc = "tick"
    /\ s_time = 0
    /\ s_due = {}
    /\ s_cur = NoCur
    /\ s_tasks = <<>>
    /\ cpc = [c \in Callers |-> "idle"]
    /\ c_loc = [c \in Callers |-> NoLoc]
    /\ nOps = 0
    /\ shist = [i \in SchedIds |-> NoSHist]
    /\ d_ret = NoRet
    /\ d_created = [i \in SchedIds |-> 0]
    /\ d_op = NoOp
    /\ db = <<>>
    /\ resp = NoResp
    /\ q_ret = NoAdd
    /\ wlife = [w \in Workers |-> "up"]
    /\ d_fired = [i \in SchedIds |-> NoRun]
    /\ d_status = NoStatusCall
    /\ b_tasks = <<>>
    /\ b_pushed = [i \in SchedIds |-> 0]

\* The queue store, its producers and the dispatcher workers.
NextQueue ==
    \/ \E t \in TaskPool : add_task(t)
    \/ get_task
    \/ \E w \in Workers : process_queue_reserve(w)
    \/ \E w \in Workers : process_task(w)
    \/ \E w \in Workers : acknowledge(w)

\* The schedule store, its callers and the scheduler thread.
NextSched ==
    \/ \E c \in Callers, a \in ScheduleCalls : schedule_task(c, a[1], a[2], a[3])
    \/ \E c \in Callers, id \in SchedIds, st \in ModifyTypes,
          i \in ModifyIntervals :
         modify_starter_task_read(c, id, st, i)
    \/ \E c \in Callers : modify_starter_task_zrem(c)
    \/ \E c \in Callers : modify_starter_task_zadd(c)
    \/ \E c \in Callers, id \in SchedIds : remove_starter_task_read(c, id)
    \/ \E c \in Callers : remove_starter_task_zrem(c)
    \/ get_due_tasks_read
    \/ get_due_tasks_entry
    \/ get_due_tasks_zadd
    \/ run_scheduler_execute
    \/ run_scheduler_sleep
    \/ run_scheduler_except
    \/ advance_clock

\* The schedule store used by direct calls.
NextDue ==
    \/ \E a \in DueCalls : direct_schedule_task(a[1], a[2], a[3])
    \/ direct_get_due_tasks
    \/ pass_time

\* The schedule store as get_task_status reports it between direct calls.
NextStatus ==
    \/ \E a \in StatusCalls : direct_schedule_task(a[1], a[2], a[3])
    \/ direct_get_due_tasks
    \/ \E id \in CallIds : direct_get_task_status(id)
    \/ advance_clock

\* A recurring entry and get_due_tasks calls any number of minutes apart.
NextCatchUp ==
    \/ \E a \in CatchUpCalls : direct_schedule_task(a[1], a[2], a[3])
    \/ direct_get_due_tasks
    \/ pass_time

\* modify_starter_task on entries that have fired, beside a main queue in use.
NextFrame ==
    \/ \E a \in StatusCalls : direct_schedule_task(a[1], a[2], a[3])
    \/ get_due_tasks_quick
    \/ \E id \in CallIds, a \in FrameCalls :
         direct_modify_starter_task(id, a[1], a[2])
    \/ add_task(TaskHuman)
    \/ advance_clock

\* The schedule store with the scheduler threads of two server processes.
NextTwoSched ==
    \/ \E c \in Callers, a \in ScheduleCalls : schedule_task(c, a[1], a[2], a[3])
    \/ get_due_tasks_read
    \/ get_due_tasks_entry
    \/ get_due_tasks_zadd
    \/ run_scheduler_execute
    \/ run_scheduler_sleep
    \/ run_scheduler_except
    \/ second_get_due_tasks
    \/ second_run_scheduler_execute
    \/ advance_clock

\* The schedule store maintained by direct calls.
NextMod ==
    \/ \E a \in ScheduleCalls : direct_schedule_task(a[1], a[2], a[3])
    \/ \E id \in CallIds, st \in ModifyTypes, i \in ModifyIntervals :
         direct_modify_starter_task(id, st, i)
    \/ \E id \in CallIds : direct_remove_starter_task(id)
    \/ advance_clock

\* The form server and its clients.
NextServer ==
    \E form_name \in RequestNames, payload \in Payloads :
        execute_form(form_name, payload)

\* The queue store used by direct calls of add_task and get_task, and the
\* reservation of the workers.
NextSubmit ==
    \/ \E task \in ValidTasks \cup MalformedTasks : direct_add_task(task)
    \/ direct_get_task
    \/ \E w \in Workers : process_queue_reserve(w)

\* The workers and the tasks of FillPool.
NextFill ==
    \/ \E t \in FillPool : add_task(t)
    \/ \E w \in Workers : process_queue_reserve(w)
    \/ \E w \in Workers : process_task(w)
    \/ \E w \in Workers : acknowledge(w)

\* The workers and the shutdown of their processes.
NextLife ==
    \/ add_task(TaskHuman)
    \/ \E w \in Workers : process_queue_reserve(w)
    \/ \E w \in Workers : process_task(w)
    \/ \E w \in Workers : acknowledge(w)
    \/ \E w \in Workers : shutdown_event(w)
    \/ \E w \in Workers : process_exit(w)

\* The workers and the crashes of their processes.
NextCrash ==
    \/ add_task(TaskHuman)
    \/ \E w \in Workers : process_queue_reserve(w)
    \/ \E w \in Workers : process_task(w)
    \/ \E w \in Workers : acknowledge(w)
    \/ \E w \in Workers : crash(w)

Next ==
    \/ NextQueue \/ NextSched \/ NextDue \/ NextMod \/ NextServer
    \/ NextSubmit \/ NextFill \/ NextLife \/ NextCrash \/ NextStatus
    \/ NextTwoSched \/ NextCatchUp \/ NextFrame

Spec == Init /\ [][Next]_vars

SpecQueue == Init /\ [][NextQueue]_vars

SpecSched == Init /\ [][NextSched]_vars

SpecDue == Init /\ [][NextDue]_vars

SpecMod == Init /\ [][NextMod]_vars

SpecServer == Init /\ [][NextServer]_vars

SpecSubmit == Init /\ [][NextSubmit]_vars

SpecFill == Init /\ [][NextFill]_vars

SpecLife == Init /\ [][NextLife]_vars

SpecCrash == Init /\ [][NextCrash]_vars

SpecStatus == Init /\ [][NextStatus]_vars

SpecTwoSched == Init /\ [][NextTwoSched]_vars

SpecCatchUp == Init /\ [][NextCatchUp]_vars

SpecFrame == Init /\ [][NextFrame]_vars

\* The scheduler thread is a running thread: after the except clause's
\* sleep it takes its next step.
SpecSchedFair == SpecSched /\ WF_vars(run_scheduler_except)

\* The worker loops under fair scheduling: process_queue is an asyncio task
\* created at startup (worker main.py lines 72-75) that the event loop
\* resumes after every await, so a step of a loop that stays possible is
\* taken.  Whether the store answers a command is not the loop's choice:
\* fairness is asked of the steps in which the loop goes on.
GoesOn(w) == wpc'[w] # process_queue_on_error

WorkerFairness ==
    \A w \in Workers :
        /\ WF_vars(process_queue_reserve(w) /\ GoesOn(w))
        /\ WF_vars(process_task(w))
        /\ WF_vars(acknowledge(w) /\ GoesOn(w))

SpecFillFair == SpecFill /\ WorkerFairness

\* ------------------------------------------------------ queue properties
\* How many entries of a list carry tag u.
CountIn(list, u) == Cardinality({i \in 1..Len(list) : list[i].uid = u})

\* The workers whose in-flight record holds the instance u.
Holders(u) == {w \in Workers : CountIn(processing[w], u) > 0}

Enqueued == 1..(nextUid - 1)

\* C1: an enqueued task instance is in the in-flight record of at most one
\* worker (and at most once there), and no two reservations, by a worker's
\* RPOPLPUSH or by get_task's RPOP, return the same instance.
C1_OneHolderOneReservation ==
    \A u \in Uids :
        /\ hist[u].res <= 1
        /\ Cardinality(Holders(u)) <= 1
        /\ \A w \in Workers : CountIn(processing[w], u) <= 1

\* Two workers hold two different instances in flight at the same time.
C1_Witness ==
    \E w1, w2 \in Workers :
        /\ w1 # w2
        /\ wpc[w1] = "process" /\ wpc[w2] = "process"
        /\ CountIn(processing[w1], wdata[w1].uid) = 1
        /\ CountIn(processing[w2], wdata[w2].uid) = 1
        /\ wdata[w1].uid # wdata[w2].uid

\* C2: every enqueued instance is either still in the main queue or has been
\* returned by exactly one reservation, as the task that was enqueued; so
\* once the queue is empty the reservations have returned exactly the
\* enqueued tasks, each once.
C2_EachTaskReturnedOnce ==
    /\ \A u \in Enqueued :
          /\ CountIn(swarm_tasks, u) + hist[u].res = 1
          /\ hist[u].res = 1 => hist[u].got = hist[u].enq
    /\ swarm_tasks = <<>> =>
          /\ Len(resOrder) = nextUid - 1
          /\ {resOrder[i] : i \in 1..Len(resOrder)} = Enqueued

\* The queue has been emptied by the reservations of two workers racing
\* for its tasks.
C2_Witness ==
    /\ swarm_tasks = <<>>
    /\ Len(resOrder) >= 2
    /\ \E w1, w2 \in Workers :
          /\ w1 # w2
          /\ wpc[w1] = "process" /\ wpc[w2] = "process"

\* C3: reservations return instances in enqueue order: an instance is
\* returned only after every instance enqueued before it.
C3_ReservationFollowsEnqueueOrder ==
    \A k \in 1..Len(resOrder) :
        \A a \in 1..(resOrder[k] - 1) :
            \E j \in 1..(k - 1) : resOrder[j] = a

\* Two instances with different payloads have been enqueued and both have
\* been reserved: the older one first, the younger one second, each with the
\* payload it was enqueued with.
C3_Witness ==
    /\ nextUid > 2
    /\ resOrder = <<1, 2>>
    /\ hist[1].enq # hist[2].enq
    /\ hist[1].got = hist[1].enq
    /\ hist[2].got = hist[2].enq

\* C4: a worker that has completed its iteration (it is back at the
\* reservation) has an empty in-flight record, whatever the fill and the
\* callback did; an acknowledged instance is in no in-flight record; the
\* callback is invoked at most once per instance; a reserved instance never
\* returns to the main queue.
C4_AcknowledgedNoRetry ==
    /\ \A w \in Workers : wpc[w] = "reserve" => processing[w] = <<>>
    /\ \A u \in Uids :
          /\ hist[u].acked >= 1 => Holders(u) = {}
          /\ hist[u].cb <= 1
          /\ hist[u].acked <= 1
          /\ hist[u].res >= 1 => CountIn(swarm_tasks, u) = 0

\* Iterations have completed after a failed fill, after a failed callback
\* and after a successful callback.
C4_Witness ==
    \E u1, u2 \in Uids :
        /\ hist[u1].acked = 1 /\ hist[u1].cbOut = "unreachable"
        /\ hist[u2].acked = 1 /\ (hist[u2].cbOut = "ok" \/ hist[u2].fill = "raise")

\* C5: every instance in the finished record had a successful callback; an
\* instance whose callback failed (unreachable, or a non-success response)
\* is not in finished.
C5_FinishedOnlyOnCallbackSuccess ==
    \A u \in Uids : CountIn(finished, u) > 0 => hist[u].cbOut = "ok"

\* C6: after a failed fill (the call raised, or its text did not parse) the
\* callback is not invoked, the instance is neither in finished nor back in
\* the main queue, and once the iteration's LREM has run it is in no
\* in-flight record.
C6_FillFailureDropsTask ==
    \A u \in Uids :
        hist[u].fill \in {"raise", "unparseable"} =>
            /\ hist[u].cb = 0
            /\ CountIn(finished, u) = 0
            /\ CountIn(swarm_tasks, u) = 0
            /\ Holders(u) # {} =>
                  \E w \in Workers : wdata[w].uid = u /\ hist[u].acked = 0

\* An iteration whose fill returned unparseable text has completed.
C6_Witness ==
    \E u \in Uids :
        /\ hist[u].fill = "unparseable"
        /\ hist[u].acked = 1
        /\ Holders(u) = {}

\* C7: no error of an iteration stops the dispatcher loop.
C7_LoopNeverStops == \A w \in Workers : wpc[w] # "stopped"

\* ------------------------------------------------ submission properties
\* The tasks stored in the main queue and in the in-flight records.
StoredEntries ==
    {swarm_tasks[i] : i \in 1..Len(swarm_tasks)}
        \cup UNION {{processing[w][i] : i \in 1..Len(processing[w])} : w \in Workers}

\* C22: add_task given a malformed task (a required field missing, a type
\* that is neither human nor ai, or a callback URL that is not a URL) raises
\* a validation error and leaves the main queue as it was, and no malformed
\* task is ever in the store.
C22_MalformedRejectedUnstored ==
    /\ (q_ret.op = "add_task" /\ q_ret.task \in MalformedTasks) =>
          /\ q_ret.ret = "ValidationError"
          /\ q_ret.after = q_ret.before
    /\ \A e \in StoredEntries :
          FromJsonString(e.data[1]) \notin {m.description : m \in MalformedTasks}

\* A task whose callback URL is not a URL has been rejected while the main
\* queue held a task.
C22_Witness ==
    /\ q_ret.op = "add_task"
    /\ q_ret.task \in MalformedTasks
    /\ "callback_url" \in DOMAIN q_ret.task
    /\ q_ret.task.callback_url \in NotUrls
    /\ q_ret.ret = "ValidationError"
    /\ q_ret.before # <<>>
    /\ swarm_tasks = q_ret.before

\* The reserved task r has the value of the submitted task o in every field.
SameInEveryField(r, o) ==
    /\ r.description = o.description
    /\ r.callback_url = o.callback_url
    /\ DOMAIN r.fields = DOMAIN o.fields
    /\ \A f \in DOMAIN o.fields : r.fields[f] = o.fields[f]
    /\ r.type = o.type
    /\ r.external = o.external
    /\ r.starter = o.starter
    /\ r.report_url = o.report_url
    /\ r.tool = o.tool

SameKeysOnlyFilled(then, now_) ==
    /\ DOMAIN now_ = DOMAIN then
    /\ \A f \in DOMAIN then \cap DOMAIN now_ :
          now_[f] = then[f] \/ then[f] = None

\* The field mappings of the instance u in the store: in the main queue, in
\* the in-flight records and in finished.
StoredFields(u) ==
    LET in(list) == {model_validate_json(list[i].data).fields :
                        i \in {j \in 1..Len(list) : list[j].uid = u}}
    IN in(swarm_tasks) \cup in(finished)
          \cup UNION {in(processing[w]) : w \in Workers}

\* C24: the keys of a task's fields are, in the main queue, in the in-flight
\* record, as reserved, as passed to the callback and as recorded in
\* finished, the keys the task was created with, and a value differs from
\* the value at creation only where that was unset.
C24_FieldKeysFixed ==
    \A u \in Enqueued :
        LET created == hist[u].enq.fields IN
        /\ \A stored \in StoredFields(u) : SameKeysOnlyFilled(created, stored)
        /\ hist[u].got # NoTask => SameKeysOnlyFilled(created, hist[u].got.fields)
        /\ hist[u].cb >= 1 => SameKeysOnlyFilled(created, hist[u].cbFields)

\* The task is one the dispatcher is to fill: mode ai, every value unset.
AiAllUnset(task) ==
    task.type = "ai" /\ \A f \in DOMAIN task.fields : task.fields[f] = None

\* C25: the report is fetched and the fill function called only for a task
\* of mode ai whose values are all unset; for any other task neither
\* happens and the callback receives the fields as they were submitted.
C25_FillAndFetchOnlyForAiUnset ==
    \A u \in Enqueued :
        /\ (hist[u].fetch > 0 \/ hist[u].fill # "none") => AiAllUnset(hist[u].enq)
        /\ (~AiAllUnset(hist[u].enq) /\ hist[u].cb >= 1) =>
              hist[u].cbFields = hist[u].enq.fields

\* C26: one task of mode ai with every field unset has been submitted, its
\* fill and its callback succeeded, no store command of the cycle failed and
\* the cycle is complete: the callback was invoked once, with a mapping whose
\* every value is set, the task is in finished exactly once, and the main
\* queue and every in-flight record are empty.
C26_OneAiTaskEndToEnd ==
    (/\ nextUid = 2
     /\ ~hist[1].enq.starter
     /\ AiAllUnset(hist[1].enq)
     /\ hist[1].fill = "ok"
     /\ hist[1].cbOut = "ok"
     /\ hist[1].fin # "raise"
     /\ hist[1].acked = 1) =>
        /\ hist[1].cb = 1
        /\ \A f \in DOMAIN hist[1].cbFields : hist[1].cbFields[f] # None
        /\ CountIn(finished, 1) = 1
        /\ Len(finished) = 1
        /\ swarm_tasks = <<>>
        /\ \A w \in Workers : processing[w] = <<>>

\* The cycle of the single submitted ai task is complete, after a fill and a
\* callback that succeeded.
C26_Witness ==
    /\ nextUid = 2
    /\ hist[1].enq = TaskAI
    /\ hist[1].fill = "ok"
    /\ hist[1].cbOut = "ok"
    /\ hist[1].fin = "ok"
    /\ hist[1].acked = 1
    /\ \E w \in Workers : wpc[w] = "reserve" /\ hist[1].res = 1

\* C27: the task a crashed worker had reserved and not acknowledged is in
\* that worker's in-flight record, once, in every state after the crash; it
\* is not in the main queue, it is in no other in-flight record, and it has
\* been reserved only that once.
C27_CrashedReservationStays ==
    \A w \in Workers :
        wlife[w] = "crashed" =>
            LET u == wdata[w].uid IN
            /\ CountIn(processing[w], u) = 1
            /\ CountIn(swarm_tasks, u) = 0
            /\ Holders(u) = {w}
            /\ hist[u].res = 1

\* A worker has crashed holding a task; afterwards another worker has
\* reserved, executed and acknowledged the next task and is reserving again
\* from the empty main queue.
C27_Witness ==
    \E w1, w2 \in Workers :
        /\ w1 # w2
        /\ wlife[w1] = "crashed"
        /\ wdata[w1].uid = 1
        /\ wlife[w2] = "up"
        /\ wpc[w2] = "reserve"
        /\ resOrder = <<1, 2>>
        /\ hist[2].acked = 1
        /\ swarm_tasks = <<>>

\* C28: no task is reserved by a worker whose shutdown handler has run, and
\* a task that is being executed when the handler runs stays in the worker's
\* in-flight record until the iteration's own LREM.
C28_ShutdownSparesRunningTask ==
    /\ \A u \in Uids : ~hist[u].late
    /\ \A w \in Workers :
          (wlife[w] = "shutdown" /\ wpc[w] = "process") =>
              CountIn(processing[w], wdata[w].uid) = 1

\* -------------------------------------------------- scheduler properties
\* The entries of the schedule store with a given task_id.
EntriesOf(id) == Matching(sched, id)

\* C8: an error raised in a tick (by get_due_tasks' store commands or by
\* add_task while enqueuing a due task) never ends the scheduler loop, and
\* after the error is logged the loop performs another tick.
C8_SchedulerSurvivesErrors ==
    /\ [](spc # "stopped")
    /\ (spc = "except") ~> (spc = "tick")

\* A tick has failed while enqueuing: its entry was fired, the task was not
\* promoted, and the loop is in its except clause.
C8_Witness ==
    /\ spc = "except"
    /\ \E id \in SchedIds : shist[id].picked >= 1 /\ shist[id].pushed = 0

\* C9: a starter entry created with interval -1 (and not given another
\* interval since) is due at every tick while it is stored, is promoted at
\* most once, is promoted by the tick that removes it, and has no entry in
\* the schedule store once it has fired.
C9_OneShotFiresExactlyOnce ==
    \A id \in SchedIds :
        (shist[id].oneShot /\ shist[id].starter) =>
            /\ \A e \in EntriesOf(id) : e.score <= now
            /\ shist[id].picked <= 1
            /\ shist[id].pushed <= 1
            /\ shist[id].picked >= 1 => EntriesOf(id) = {}
            /\ (shist[id].picked >= 1 /\ spc \in {"tick", "except"}) =>
                  shist[id].pushed = 1

\* C10: the schedule store holds at most one entry per schedule id.
C10_OneEntryPerScheduleId ==
    \A id \in SchedIds : Cardinality(EntriesOf(id)) <= 1

\* C12: a firing pushes its task: once a tick has ended, normally or in the
\* except clause, every firing that removed or rescheduled an entry has
\* pushed a task to the main queue; and a recurring entry that has fired
\* is stored with a next run later than its last run.
C12_FiringPushesItsTask ==
    /\ spc \in {"tick", "except"} =>
          \A id \in SchedIds : shist[id].pushed >= shist[id].picked
    /\ \A e \in sched :
          LET info == json_loads(e.member)
          IN (info.last_run # NoRun /\ info.interval >= 1) =>
                e.score > info.last_run

C16_RemovedStaysRemoved ==
    \A id \in SchedIds : shist[id].removed => EntriesOf(id) = {}

\* ------------------------------------------------- direct-call properties
\* The entries a direct get_due_tasks call met that have never fired and
\* were scheduled from a starter template with unit minutes and interval 5.
FreshEveryFive(entries) ==
    {e \in entries :
        LET info == json_loads(e.member)
        IN /\ info.last_run = NoRun
           /\ info.schedule_type = "minutes"
           /\ info.interval = 5
           /\ model_validate_json(info.task).starter}

\* The tasks a direct get_due_tasks call returned for the entry id.
YieldedFor(id) ==
    {i \in 1..Len(d_ret.tasks) : d_ret.tasks[i].sid = id}

\* C11: for a starter template scheduled with unit minutes and interval 5
\* at time t, a get_due_tasks call before t + 5 yields no task for it and
\* keeps its entry (and leaves the whole store as it was when nothing else
\* is stored), and a call at t + 5 or later yields exactly one task, equal
\* to the template.
C11_DueOnlyAfterInterval ==
    d_ret # NoRet =>
        LET fresh == FreshEveryFive(d_ret.before)
            id(e) == json_loads(e.member).task_id
            early(e) == d_ret.at < d_created[id(e)] + 5
        IN /\ \A e \in fresh :
                  early(e) => /\ YieldedFor(id(e)) = {}
                              /\ e \in d_ret.after
           /\ (d_ret.before = fresh /\ \A e \in fresh : early(e)) =>
                  /\ d_ret.after = d_ret.before
                  /\ d_ret.tasks = <<>>
           /\ \A e \in fresh :
                  ~early(e) =>
                      /\ Cardinality(YieldedFor(id(e))) = 1
                      /\ \A i \in YieldedFor(id(e)) :
                            d_ret.tasks[i].task = TaskStarter

\* A template was scheduled every 5 minutes, and the call made exactly 5
\* minutes later has returned its task.
C11_Witness ==
    /\ d_ret # NoRet
    /\ \E e \in FreshEveryFive(d_ret.before) :
          /\ d_ret.at = d_created[json_loads(e.member).task_id] + 5
          /\ Len(d_ret.tasks) = 1
          /\ d_ret.tasks[1].task = TaskStarter

\* C14: the stored next run of an entry that has never fired is the time of
\* its schedule_task plus interval times unit (interval 0 for -1), and the
\* stored next run of a recurring entry that has fired is its stored
\* last_run plus interval times unit.
C14_NextRunFromLastRun ==
    \A e \in sched :
        LET info == json_loads(e.member)
            i == IF info.interval = -1 THEN 0 ELSE info.interval
            delta == i * UnitMinutes(info.schedule_type)
        IN IF info.last_run = NoRun
           THEN e.score = d_created[info.task_id] + delta
           ELSE info.interval # -1 => e.score = info.last_run + delta

\* C15: after a modify call that returned true, the store holds exactly one
\* entry with the id; its schedule_type and interval are the supplied
\* values (the old value where none was supplied), and its next run is the
\* time of the call plus the resulting interval times the resulting unit.
C15_ModifyAppliesSuppliedValues ==
    (d_op.op = "modify" /\ d_op.ret) =>
        LET old == Matching(d_op.before, d_op.task_id)
            new == Matching(d_op.after, d_op.task_id)
        IN /\ Cardinality(new) = 1
           /\ \A o \in old, e \in new :
                 LET was == json_loads(o.member)
                     info == json_loads(e.member)
                     i == IF info.interval = -1 THEN 0 ELSE info.interval
                 IN /\ info.schedule_type =
                         IF d_op.schedule_type # None
                         THEN d_op.schedule_type ELSE was.schedule_type
                    /\ info.interval =
                         IF d_op.interval # NoArg
                         THEN d_op.interval ELSE was.interval
                    /\ e.score = d_op.at + i * UnitMinutes(info.schedule_type)

\* C17: a modify or remove call whose id matches no entry of the schedule
\* store returns false and leaves the schedule store and the main queue as
\* they were.
C17_AbsentIdChangesNothing ==
    (/\ d_op.op \in {"modify", "remove"}
     /\ \A e \in d_op.before : json_loads(e.member).task_id # d_op.task_id) =>
        /\ ~d_op.ret
        /\ d_op.after = d_op.before
        /\ swarm_tasks = d_op.queue

\* An entry is stored, and a modify call with an id that matches no entry
\* has returned false.
C17_Witness ==
    /\ d_op.op = "modify"
    /\ d_op.before # {}
    /\ \A e \in d_op.before : json_loads(e.member).task_id # d_op.task_id
    /\ ~d_op.ret
    /\ sched = d_op.before

\* ------------------------------------------------------ server properties
\* The conditions of a next step as the chaining rule states them: every
\* table named has a write result, and every field/expected-value pair of
\* the table equals the field of each of the table's results.
ConditionsMet(conditions, results) ==
    \A table \in DOMAIN conditions :
        \A field \in DOMAIN conditions[table] :
            /\ \E i \in 1..Len(results) : results[i].table = table
            /\ \A i \in 1..Len(results) :
                  results[i].table = table =>
                      /\ field \in DOMAIN results[i].data
                      /\ results[i].data[field] = conditions[table][field]

\* A named table has a write result with a field that differs from the
\* expected value.
ConditionsMismatch(conditions, results) ==
    \E table \in DOMAIN conditions :
        \E field \in DOMAIN conditions[table] :
            \E i \in 1..Len(results) :
                /\ results[i].table = table
                /\ Get(results[i].data, field) # conditions[table][field]

\* C18: a request that succeeds enqueues a next-step task if and only if
\* its form has a next_step whose conditions are met by the write results;
\* the task enqueued is the one built from the next_step.
C18_ChainsIffConditionsMet ==
    resp.code = 200 =>
        LET form == Forms[resp.form_name]
            met == /\ form.next_step # NoStep
                   /\ ConditionsMet(GetOr(form.next_step, "conditions", <<>>), resp.results)
        IN /\ resp.enqueued = 1 <=> met
           /\ resp.enqueued = 1 <=>
                 resp.next_step_status = "Next step added to Redis queue"

\* C19: when a write result does not match the conditions, the request
\* enqueues nothing, answers with status success and next_step_status
\* "No Next Step", and its writes are committed.
C19_MismatchIsNoNextStep ==
    (/\ resp.form_name \in DOMAIN Forms
     /\ resp.code \in {200, 500}
     /\ resp.written > 0
     /\ Forms[resp.form_name].next_step # NoStep
     /\ ConditionsMismatch(GetOr(Forms[resp.form_name].next_step,
                                  "conditions", <<>>),
                            Results(Forms[resp.form_name].operations,
                                    resp.payload))) =>
        /\ resp.enqueued = 0
        /\ resp.code = 200
        /\ resp.status = "success"
        /\ resp.next_step_status = "No Next Step"
        /\ resp.written = Len(Forms[resp.form_name].operations)

\* A shipped order was posted to the form that chains on pending orders:
\* the row is written, nothing is enqueued, the status is "No Next Step".
C19_Witness ==
    /\ resp.form_name = "order_pending"
    /\ resp.payload["status"] = "shipped"
    /\ resp.code = 200
    /\ resp.next_step_status = "No Next Step"
    /\ Len(db) >= 1 /\ db[Len(db)].table = "orders"
    /\ swarm_tasks = <<>>

\* C20: a request for a form name that has no definition is answered 404,
\* an outcome no other request gets, writes no row and enqueues no task.
C20_UnknownFormNotFound ==
    /\ resp.form_name \notin (DOMAIN Forms \cup {"none"}) =>
          /\ resp.code = 404
          /\ resp.written = 0
          /\ resp.enqueued = 0
    /\ resp.code = 404 => resp.form_name \notin DOMAIN Forms

\* After a form has written a row and chained a task, a request for an
\* unknown form was answered 404 and rows and queue are as they were.
C20_Witness ==
    /\ resp.form_name = "unknown"
    /\ resp.code = 404
    /\ Len(db) >= 1
    /\ swarm_tasks # <<>>

\* C21: a request one of whose writes failed has committed no row and
\* enqueued no task, and a request that enqueued a next-step task has
\* committed the row of every operation of its step.
C21_ChainsOnlyAfterCommit ==
    /\ resp.write_failed =>
          /\ resp.written = 0
          /\ resp.enqueued = 0
          /\ resp.code = 500
    /\ resp.enqueued = 1 =>
          /\ ~resp.write_failed
          /\ resp.written = Len(Forms[resp.form_name].operations)
          /\ \A i \in 1..Len(resp.results) :
                \E j \in 1..Len(db) : db[j] = resp.results[i]

\* After an earlier request has written a row and chained a task, a request
\* to the form with two operations had one of its INSERTs fail.
C21_Witness ==
    /\ resp.form_name = "order_and_ship"
    /\ resp.write_failed
    /\ resp.code = 500
    /\ Len(db) = 1
    /\ Len(swarm_tasks) = 1

\* C29: the task a request chains has the keys of the next step's field
\* template with every value unset, the callback URL of the next step's
\* form, the next step's type and external flag, is no starter, and is the
\* one task the request enqueued.
C29_ChainedTaskFromTemplate ==
    (resp.code = 200
        /\ resp.next_step_status = "Next step added to Redis queue") =>
        /\ resp.enqueued = 1
        /\ LET next_step == Forms[resp.form_name].next_step
               task == model_validate_json(swarm_tasks[1].data)
           IN /\ DOMAIN task.fields = DOMAIN next_step.fields
              /\ \A f \in DOMAIN task.fields : task.fields[f] = None
              /\ task.callback_url =
                    "http://test_app:8000/forms/" \o next_step.form_name
              /\ task.type = GetOr(next_step, "type", "ai")
              /\ task.external = GetOr(next_step, "external", FALSE)
              /\ ~task.starter

\* C30: a successful request to a form whose next_step has empty conditions,
\* or none, enqueues the next-step task, whatever the rows written.
C30_NoConditionsAlwaysChains ==
    (/\ resp.code = 200
     /\ resp.form_name \in DOMAIN Forms
     /\ Forms[resp.form_name].next_step # NoStep
     /\ DOMAIN GetOr(Forms[resp.form_name].next_step, "conditions", <<>>) = {}) =>
        /\ resp.enqueued = 1
        /\ resp.next_step_status = "Next step added to Redis queue"

\* The form whose next_step has no conditions key has chained after writing
\* a shipped order, and the form with empty conditions had chained before.
C30_Witness ==
    /\ resp.form_name = "order_plain"
    /\ "conditions" \notin DOMAIN Forms["order_plain"].next_step
    /\ resp.payload["status"] = "shipped"
    /\ resp.code = 200
    /\ resp.enqueued = 1
    /\ Len(swarm_tasks) = 2
    /\ model_validate_json(swarm_tasks[1].data).description = "Execute form ship"

\* ------------------------------------------------------ status properties
\* C31: get_task_status returns, for an id with an entry in the schedule
\* store, that entry's last_run, its score as next_run, its schedule_type and
\* its interval, where last_run is unset before the entry's first firing and
\* is afterwards the time of its most recent firing; for an id without an
\* entry it returns nothing.
C31_StatusReportsStoredEntry ==
    d_status.op = "status" =>
        LET entries == {e \in d_status.store :
                           json_loads(e.member).task_id = d_status.task_id}
        IN IF entries = {}
           THEN d_status.ret = NoStatus
           ELSE /\ d_status.ret.task_id = d_status.task_id
                /\ d_status.ret.last_run = d_status.fired
                /\ \E e \in entries :
                      /\ d_status.ret.last_run = json_loads(e.member).last_run
                      /\ d_status.ret.next_run = e.score
                      /\ d_status.ret.schedule_type = json_loads(e.member).schedule_type
                      /\ d_status.ret.interval = json_loads(e.member).interval

\* The status of a recurring entry has been read after the entry fired at
\* time 1: last_run is the time of the firing and next_run lies after it.
C31_Witness ==
    /\ d_status.op = "status"
    /\ d_status.task_id = 1
    /\ d_status.ret # NoStatus
    /\ d_status.ret.last_run = 1
    /\ d_status.ret.next_run > 1
    /\ d_status.ret.interval = 1

\* -------------------------------------------- further queue properties
\* The instances, other than u, submitted with the task u was submitted with.
Duplicates(u) == {v \in Enqueued \ {u} : hist[v].enq = hist[u].enq}

\* C32: a task submitted several times is on the main queue once per
\* submission: each of the instances is in the queue or has been reserved
\* exactly once, each gets at most one callback, and each instance whose
\* cycle completed without a fetch or fill failure got exactly one.
C32_DuplicatesEachRunOnce ==
    \A u \in Enqueued :
        Duplicates(u) # {} =>
            /\ CountIn(swarm_tasks, u) + hist[u].res = 1
            /\ hist[u].cb <= 1
            /\ (hist[u].acked = 1 /\ hist[u].fetch = 0
                    /\ hist[u].fill \in {"none", "ok"}) => hist[u].cb = 1

\* The same task has been submitted twice; both
\* instances have been executed and acknowledged, with one successful
\* callback each, and finished holds both.
C32_Witness ==
    /\ nextUid = 3
    /\ hist[1].enq = hist[2].enq
    /\ \A u \in {1, 2} :
          hist[u].res = 1 /\ hist[u].cb = 1 /\ hist[u].cbOut = "ok"
              /\ hist[u].acked = 1
    /\ Len(finished) = 2
    /\ swarm_tasks = <<>>

\* C35: an instance is never at once in the main queue and in an in-flight
\* record, an instance in finished is not in the main queue, and the main
\* queue holds only instances that were never reserved: nothing but add_task
\* puts an entry on it.
C35_TaskInOnePlace ==
    \A u \in Uids :
        /\ ~(CountIn(swarm_tasks, u) > 0 /\ Holders(u) # {})
        /\ CountIn(finished, u) > 0 => CountIn(swarm_tasks, u) = 0
        /\ CountIn(swarm_tasks, u) > 0 =>
              /\ hist[u].res = 0
              /\ CountIn(swarm_tasks, u) = 1
              /\ u \in Enqueued

\* One instance is in finished while another is in an in-flight record and
\* the main queue is empty.
C35_Witness ==
    \E u1, u2 \in Uids :
        /\ u1 # u2
        /\ CountIn(finished, u1) = 1
        /\ Holders(u2) # {}
        /\ swarm_tasks = <<>>

\* C36: the in-flight record of a worker holds at most one entry, and it is
\* empty whenever the worker is about to reserve.
C36_OneInFlightPerWorker ==
    \A w \in Workers :
        /\ Len(processing[w]) <= 1
        /\ (wpc[w] = "reserve" /\ Running(w)) => processing[w] = <<>>

\* A worker holds its second task in flight after it has acknowledged its
\* first, while the other workers have reserved nothing.
C36_Witness ==
    \E w \in Workers :
        /\ Len(processing[w]) = 1
        /\ wdata[w].uid = 2
        /\ hist[1].acked = 1
        /\ \A o \in Workers \ {w} : wpc[o] = "reserve" /\ wdata[o] = NoEntry

\* The entries two submissions of the task t put on a list.
TwoEntriesOf(t) ==
    <<[data |-> model_dump_json(t), uid |-> 2],
      [data |-> model_dump_json(t), uid |-> 1]>>

\* C37: the LREM of acknowledge removes the entry the worker reserved: an
\* acknowledged instance is in no in-flight record, also when the fill
\* replaced its fields; until its own acknowledge a reserved entry is the
\* one entry of its worker's in-flight record, whatever other workers
\* acknowledge; and of two entries with the same payload LREM removes one.
C37_AckRemovesReservedEntry ==
    /\ \A u \in Uids : hist[u].acked = 1 => Holders(u) = {}
    /\ \A w \in Workers :
          wpc[w] \in {"process", "ack"} => processing[w] = <<wdata[w]>>
    /\ \A t \in TaskPool :
          LRem1(TwoEntriesOf(t), model_dump_json(t)) = <<TwoEntriesOf(t)[2]>>

\* Two instances of one payload were reserved by two workers; the first was
\* filled, called back and acknowledged, the second is still in flight.
C37_Witness ==
    \E w \in Workers :
        /\ hist[1].enq = hist[2].enq
        /\ hist[1].fill = "ok"
        /\ hist[1].cbFields # hist[1].enq.fields
        /\ hist[1].acked = 1
        /\ Holders(1) = {}
        /\ wdata[w].uid = 2
        /\ wpc[w] = "ack"
        /\ processing[w] = <<wdata[w]>>

\* ------------------------------------------ further schedule properties
\* C33: when a remove_starter_task call that found an entry with its id
\* returns, the schedule store holds no entry with that id, whatever the
\* scheduler thread did to the entry during the call; so the call returns
\* False only when no entry with the id is stored.
C33_RemoveLeavesNoEntry ==
    [][\A c \in Callers :
          (cpc[c] = "remove_zrem" /\ cpc'[c] = "idle") =>
              \A e \in sched' :
                  json_loads(e.member).task_id #
                      json_loads(c_loc[c].task_data).task_id]_vars

\* C34: with two scheduler loops on one schedule store, an entry is pushed
\* to the main queue at most once for each of its due times, and the store
\* holds at most one entry per schedule id.  (The due times of an entry lie
\* after its creation and at least a minute apart: by the time now it has had
\* at most now of them, and a one-shot entry has one.)
C34_TwoLoopsPromoteOnce ==
    \A id \in SchedIds :
        /\ shist[id].pushed + b_pushed[id] <= (IF shist[id].oneShot THEN 1 ELSE now)
        /\ Cardinality(EntriesOf(id)) <= 1

\* The recurring starter entries of the store z that are due at the time t.
DueRecurring(z, t) ==
    {e \in z : /\ e.score <= t
               /\ json_loads(e.member).interval >= 1
               /\ only_starter(model_validate_json(json_loads(e.member).task))}

\* C38: a get_due_tasks call returns one task for a recurring entry that is
\* due, however many intervals it is overdue, and leaves one entry for it
\* whose next run is one interval after the clock reading of the call (the
\* reading at the start of the call or the one taken during it).
C38_NoCatchUpFiring ==
    d_ret.at # -1 =>
        \A e \in DueRecurring(d_ret.before, d_ret.at) :
            LET info == json_loads(e.member)
                delta == info.interval * UnitMinutes(info.schedule_type)
                left == Matching(d_ret.after, info.task_id)
            IN /\ Cardinality({k \in 1..Len(d_ret.tasks) :
                                  d_ret.tasks[k].sid = info.task_id}) = 1
               /\ Cardinality(left) = 1
               /\ \A n \in left :
                     /\ \E el \in Elapsed : n.score = d_ret.at + el + delta
                     /\ json_loads(n.member).last_run = d_ret.at

\* A call found an entry with an interval of one minute three or more
\* minutes after its due time and returned its task.
C38_Witness ==
    /\ d_ret.at # -1
    /\ \E e \in DueRecurring(d_ret.before, d_ret.at) :
          /\ json_loads(e.member).interval = 1
          /\ d_ret.at >= e.score + 3
          /\ Len(d_ret.tasks) = 1
          /\ \A n \in d_ret.after : n.score > d_ret.at

\* No process_queue loop has ended: no store command of a loop has failed.
LoopsAlive == \A w \in Workers : wpc[w] # process_queue_on_error

ModifyReturnedTrue == d_op' # d_op /\ d_op'.op = "modify" /\ d_op'.ret

====
